---- MODULE Spec2Model ----
(***************************************************************************)
(* A model of cli/visualize_graph.py: the generator (main, build_html)     *)
(* that turns a nav-graph JSON file into one HTML document, and the        *)
(* canvas renderer embedded in that document (camera, zoom, drag, hover,   *)
(* area toggles, search, draw).                                            *)
(*                                                                         *)
(* Numbers of the renderer are modelled as exact rationals <<n, d>> in     *)
(* lowest terms (d > 0); the script's IEEE doubles round, the model does   *)
(* not.  Text is modelled as sequences of one-character strings, markup    *)
(* literals of the tooltip as single tokens.                               *)
(***************************************************************************)
EXTENDS Integers, Sequences, FiniteSets, TLC

VARIABLES
    pc,               \* position of main(): which statement runs next
    inFile,           \* the file at args.graph_json
    outFile,          \* the file at args.output
    data,             \* build_html: the parsed JSON document
    html_content,     \* main: the document build_html returned
    loaded,           \* the browser has run the document's script
    NODES, EDGES,     \* script constants
    canvas,           \* [width, height]
    areaVisible,
    camX, camY, zoom,
    dragging, dragStartX, dragStartY, dragCamX, dragCamY,
    hoveredNode,      \* 0 for null, else the index in NODES of the hovered object
    searchValue,      \* searchEl.value
    searchTerm, highlightedNodes,
    frame,            \* what the last draw() put on the canvas
    tooltipShown,     \* tooltip.style.display = 'block'
    button,           \* environment: the mouse button is physically held
    downWX, downWY,   \* history: the world point under the pointer at the last mousedown
    nWheel,           \* counter of the wheel events handled (bounded)
    nEvents           \* counter of the events the script has handled (bounded)

genVars  == <<pc, inFile, outFile, data, html_content>>
dataVars == <<loaded, NODES, EDGES, canvas>>
camVars  == <<camX, camY, zoom>>
dragVars == <<dragging, dragStartX, dragStartY, dragCamX, dragCamY>>
histVars == <<downWX, downWY>>
rendVars == <<loaded, NODES, EDGES, canvas, areaVisible, camX, camY, zoom, dragging,
              dragStartX, dragStartY, dragCamX, dragCamY, hoveredNode, searchValue,
              searchTerm, highlightedNodes, frame, tooltipShown, button, downWX, downWY,
              nWheel, nEvents>>

vars == <<pc, inFile, outFile, data, html_content, loaded, NODES, EDGES, canvas,
          areaVisible, camX, camY, zoom, dragging, dragStartX, dragStartY,
          dragCamX, dragCamY, hoveredNode, searchValue, searchTerm,
          highlightedNodes, frame, tooltipShown, button, downWX, downWY,
          nWheel, nEvents>>

----------------------------------------------------------------------------
(* Bounds of the model *)

MaxWheel == 1      \* wheel events per run
MaxEvents == 4     \* events of the page per run

----------------------------------------------------------------------------
(* Exact rational arithmetic *)

Abs(i) == IF i < 0 THEN -i ELSE i

RECURSIVE GCD(_, _)
GCD(a, b) == IF b = 0 THEN a ELSE GCD(b, a % b)

\* the rational n/d (d # 0) in lowest terms with a positive denominator
Rat(n, d) ==
    LET g == GCD(Abs(n), Abs(d))
        s == IF d < 0 THEN -1 ELSE 1
    IN  <<s * (n \div g), s * (d \div g)>>

I(i) == <<i, 1>>

RNeg(a) == <<-a[1], a[2]>>

RAdd(a, b) ==
    LET g == GCD(a[2], b[2])
    IN  Rat(a[1] * (b[2] \div g) + b[1] * (a[2] \div g), (a[2] \div g) * b[2])

RSub(a, b) == RAdd(a, RNeg(b))

RMul(a, b) ==
    LET g1 == GCD(Abs(a[1]), b[2])
        g2 == GCD(Abs(b[1]), a[2])
    IN  Rat((a[1] \div g1) * (b[1] \div g2), (a[2] \div g2) * (b[2] \div g1))

RInv(a) == Rat(a[2], a[1])

RDiv(a, b) == RMul(a, RInv(b))

\* a < b for fractions with positive denominators, by continued-fraction
\* descent (no cross products)
RECURSIVE FracLess(_, _, _, _)
FracLess(a, b, c, d) ==
    LET qa == a \div b
        qc == c \div d
        ra == a % b
        rc == c % d
    IN  IF qa # qc THEN qa < qc
        ELSE IF rc = 0 THEN FALSE
        ELSE IF ra = 0 THEN TRUE
        ELSE FracLess(d, rc, b, ra)

RLt(a, b) == FracLess(a[1], a[2], b[1], b[2])
RLe(a, b) == ~RLt(b, a)
RMax(a, b) == IF RLt(a, b) THEN b ELSE a
RMin(a, b) == IF RLt(b, a) THEN b ELSE a
RAbs(a) == <<Abs(a[1]), a[2]>>

----------------------------------------------------------------------------
(* Text *)

UpperCase == <<"A","B","C","D","E","F","G","H","I","J","K","L","M",
               "N","O","P","Q","R","S","T","U","V","W","X","Y","Z">>
LowerCase == <<"a","b","c","d","e","f","g","h","i","j","k","l","m",
               "n","o","p","q","r","s","t","u","v","w","x","y","z">>

LowerChar(c) ==
    IF \E i \in 1..26 : UpperCase[i] = c
    THEN LowerCase[CHOOSE i \in 1..26 : UpperCase[i] = c]
    ELSE c

toLowerCase(s) == [i \in 1..Len(s) |-> LowerChar(s[i])]

IsSpace(c) == c \in {" ", "\t", "\n"}

RECURSIVE trimStart(_)
trimStart(s) ==
    IF s # <<>> /\ IsSpace(Head(s)) THEN trimStart(Tail(s)) ELSE s

RECURSIVE trimEnd(_)
trimEnd(s) ==
    IF s # <<>> /\ IsSpace(s[Len(s)]) THEN trimEnd(SubSeq(s, 1, Len(s) - 1)) ELSE s

trim(s) == trimEnd(trimStart(s))

includes(s, t) ==
    \E i \in 0..(Len(s) - Len(t)) : SubSeq(s, i + 1, i + Len(t)) = t

\* html.escape(s) with quote=True
EscapeChar(c) ==
    CASE c = "&"  -> <<"&","a","m","p",";">>
      [] c = "<"  -> <<"&","l","t",";">>
      [] c = ">"  -> <<"&","g","t",";">>
      [] c = "\"" -> <<"&","q","u","o","t",";">>
      [] c = "'"  -> <<"&","#","x","2","7",";">>
      [] OTHER    -> <<c>>

RECURSIVE escape(_)
escape(s) == IF s = <<>> THEN <<>> ELSE EscapeChar(Head(s)) \o escape(Tail(s))

RECURSIVE Join(_, _)
Join(sep, parts) ==
    IF parts = <<>> THEN <<>>
    ELSE IF Len(parts) = 1 THEN parts[1]
    ELSE parts[1] \o sep \o Join(sep, Tail(parts))

----------------------------------------------------------------------------
(* Module-level tables of the generator *)

None == "None"     \* Python None / JSON null / JS null

Crateria    == <<"C","r","a","t","e","r","i","a">>
Brinstar    == <<"B","r","i","n","s","t","a","r">>
Norfair     == <<"N","o","r","f","a","i","r">>
WreckedShip == <<"W","r","e","c","k","e","d"," ","S","h","i","p">>
Maridia     == <<"M","a","r","i","d","i","a">>
Tourian     == <<"T","o","u","r","i","a","n">>
Ceres       == <<"C","e","r","e","s">>

AREA_COLORS ==
    (Crateria :> "#4488cc") @@ (Brinstar :> "#44aa44") @@ (Norfair :> "#cc4422") @@
    (WreckedShip :> "#7766aa") @@ (Maridia :> "#2299bb") @@ (Tourian :> "#cc9922") @@
    (Ceres :> "#888888")

DOOR_CAP_COLORS ==
    [blue |-> "#3880D0", red |-> "#D05050", green |-> "#40C048",
     yellow |-> "#D8C830", grey |-> "#808088"]

\* dict.get(key, default)
Get(dict, key, default) == IF key \in DOMAIN dict THEN dict[key] ELSE default

CellSize == 40

----------------------------------------------------------------------------
(* build_html: the transform of nodes and edges *)

\* node_by_id.get(id): the index of the last node of the list with that roomId
\* (a later dict entry replaces an earlier one), 0 for None
NodeById(nodes, id) ==
    LET hits == {i \in 1..Len(nodes) : nodes[i].roomId = id}
    IN  IF hits = {} THEN 0
        ELSE CHOOSE i \in hits : \A j \in hits : j <= i

Connection(nodes, e) ==
    LET to_node == NodeById(nodes, e.toRoomId)
    IN  [to       |-> IF to_node # 0 THEN nodes[to_node].name ELSE e.toRoomIdHex,
         dir      |-> e.direction,
         cap      |-> e.doorCapColor,
         ability  |-> e.requiredAbility,
         elevator |-> e.isElevator]

\* adj.get(fid, []): the connections of the edges leaving fid, in edge order
RECURSIVE Adj(_, _, _)
Adj(nodes, edges, fid) ==
    IF edges = <<>> THEN <<>>
    ELSE (IF Head(edges).fromRoomId = fid
          THEN <<Connection(nodes, Head(edges))>> ELSE <<>>)
         \o Adj(nodes, Tail(edges), fid)

ConnHtml(c) ==
    LET cap_str == IF c.cap # None
                   THEN <<" <span style=\"color:", Get(DOOR_CAP_COLORS, c.cap, "#fff"),
                          ";font-weight:bold\">[", c.cap, "]</span>">>
                   ELSE <<>>
        elev == IF c.elevator THEN <<" (elevator)">> ELSE <<>>
    IN  <<c.dir, " → ">> \o escape(c.to) \o cap_str \o elev

TooltipHead(n) ==
    <<"<b>">> \o escape(n.name) \o <<"</b><br>">>
    \o escape(n.areaName) \o <<" | ">> \o n.roomIdHex \o <<"<br>">>
    \o <<"Map: (", ToString(n.mapX), ", ", ToString(n.mapY), ") | Size: ",
         ToString(n.widthScreens), "x", ToString(n.heightScreens), "<br>">>
    \o <<"<hr style=\"margin:4px 0\">">>

\* the conditional expression binds weaker than +: the whole concatenation is
\* its first branch
Tooltip(n, connections) ==
    LET conn_html_parts == [i \in 1..Len(connections) |-> ConnHtml(connections[i])]
    IN  IF conn_html_parts # <<>>
        THEN TooltipHead(n) \o Join(<<"<br>">>, conn_html_parts)
        ELSE <<"No doors">>

JsNode(nodes, edges, n) ==
    [id      |-> n.roomId,
     label   |-> n.name,
     area    |-> n.areaName,
     color   |-> Get(AREA_COLORS, n.areaName, "#888"),
     x       |-> n.mapX * CellSize,
     y       |-> n.mapY * CellSize,
     w       |-> n.widthScreens,
     h       |-> n.heightScreens,
     hex     |-> n.roomIdHex,
     tooltip |-> Tooltip(n, Adj(nodes, edges, n.roomId))]

JsEdge(e) ==
    LET capped == e.doorCapColor # None
        color  == IF capped THEN Get(DOOR_CAP_COLORS, e.doorCapColor, "#888") ELSE "#555"
        width  == IF e.isElevator THEN 3 ELSE IF capped THEN 2 ELSE 1
    IN  [from  |-> e.fromRoomId,
         to    |-> e.toRoomId,
         color |-> color,
         width |-> width,
         cap   |-> e.doorCapColor,
         dir   |-> e.direction]

\* the data embedded in the returned document
BuildDoc(nodes, edges) ==
    [built |-> TRUE,
     nodes |-> [i \in 1..Len(nodes) |-> JsNode(nodes, edges, nodes[i])],
     edges |-> [i \in 1..Len(edges) |-> JsEdge(edges[i])]]

----------------------------------------------------------------------------
(* Input documents *)

Room(id, name, area, hex, mx, my, w, h) ==
    [roomId |-> id, name |-> name, areaName |-> area, roomIdHex |-> hex,
     mapX |-> mx, mapY |-> my, widthScreens |-> w, heightScreens |-> h]

Door(f, t, thex, dir, cap, elev) ==
    [fromRoomId |-> f, toRoomId |-> t, toRoomIdHex |-> thex, direction |-> dir,
     doorCapColor |-> cap, requiredAbility |-> None, isElevator |-> elev]

Debug == <<"D","e","b","u","g">>     \* an area name AREA_COLORS does not know

GraphNodes ==
    << Room(1, <<"A","b">>,     Crateria, <<"9","1">>, 0, 0, 1, 1),
       Room(2, <<"P"," ","<">>, Brinstar, <<"9","2">>, 6, 0, 2, 1),
       Room(3, <<"T","o">>,     Crateria, <<"9","3">>, 0, 0, 3, 3),
       Room(4, <<"D">>,         Debug,    <<"9","4">>, 6, 1, 1, 1) >>

GraphEdges ==
    << Door(1, 2, <<"9","2">>, "right", None,   FALSE),
       Door(2, 1, <<"9","1">>, "left",  "blue", FALSE),
       Door(3, 4, <<"9","4">>, "down",  None,   TRUE),
       Door(1, 9, <<"9","9">>, "up",    "red",  FALSE) >>

\* JSON documents: an object is a function on its keys
Documents ==
    { [nodes |-> GraphNodes, edges |-> GraphEdges],
      [nodes |-> <<>>, edges |-> <<>>],
      [edges |-> GraphEdges],
      [nodes |-> GraphNodes] }

InputFiles ==
    { [exists |-> FALSE, valid |-> FALSE, value |-> None],
      [exists |-> TRUE,  valid |-> FALSE, value |-> None] }
    \cup { [exists |-> TRUE, valid |-> TRUE, value |-> d] : d \in Documents }

OutputFiles == { <<"absent">>, <<"old">> }

----------------------------------------------------------------------------
(* main *)

Fail(why) ==
    /\ pc' = why
    /\ UNCHANGED <<inFile, outFile, data, html_content, rendVars>>

\* open(graph_path), with the output opened for writing before the input is read
OpenInputTruncating ==
    /\ pc = "open_input"
    /\ outFile' = <<"empty">>
    /\ pc' = IF inFile.exists THEN "json_load" ELSE "failed_read"
    /\ UNCHANGED <<inFile, data, html_content, rendVars>>

\* open(graph_path)
OpenInput ==
    /\ pc = "open_input"
    /\ IF inFile.exists
       THEN pc' = "json_load" /\ UNCHANGED <<inFile, outFile, data, html_content, rendVars>>
       ELSE Fail("failed_read")

\* json.load(f)
JsonLoad ==
    /\ pc = "json_load"
    /\ IF inFile.valid
       THEN /\ data' = inFile.value
            /\ pc' = "get_nodes"
            /\ UNCHANGED <<inFile, outFile, html_content, rendVars>>
       ELSE Fail("failed_json")

\* data["nodes"]
GetNodes ==
    /\ pc = "get_nodes"
    /\ IF "nodes" \in DOMAIN data
       THEN pc' = "get_edges" /\ UNCHANGED <<inFile, outFile, data, html_content, rendVars>>
       ELSE Fail("failed_key")

\* data["edges"]
GetEdges ==
    /\ pc = "get_edges"
    /\ IF "edges" \in DOMAIN data
       THEN pc' = "build" /\ UNCHANGED <<inFile, outFile, data, html_content, rendVars>>
       ELSE Fail("failed_key")

\* the rest of build_html, up to its return into main
Build ==
    /\ pc = "build"
    /\ html_content' = BuildDoc(data.nodes, data.edges)
    /\ pc' = "open_output"
    /\ UNCHANGED <<inFile, outFile, data, rendVars>>

\* open(args.output, "w"): creates or truncates the file
OpenOutput ==
    /\ pc = "open_output"
    /\ outFile' = <<"empty">>
    /\ pc' = "write"
    /\ UNCHANGED <<inFile, data, html_content, rendVars>>

\* open(args.output, "w") raises (no permission, no such directory)
OpenOutputError ==
    /\ pc = "open_output"
    /\ Fail("failed_open")

\* f.write(html_content) and the close of the with block
WriteOutput ==
    /\ pc = "write"
    /\ outFile' = <<"doc", html_content>>
    /\ pc' = "print"
    /\ UNCHANGED <<inFile, data, html_content, rendVars>>

\* the write or the flush at close raises (disk full)
WriteOutputError ==
    /\ pc = "write"
    /\ outFile' = <<"partial">>
    /\ pc' = "failed_write"
    /\ UNCHANGED <<inFile, data, html_content, rendVars>>

PrintDone ==
    /\ pc = "print"
    /\ pc' = "done"
    /\ UNCHANGED <<inFile, outFile, data, html_content, rendVars>>

----------------------------------------------------------------------------
(* The script: coordinate transform *)

ToScreen(cx, cy, z, cv, wx, wy) ==
    << RAdd(RMul(RSub(wx, cx), z), Rat(cv.width, 2)),
       RAdd(RMul(RSub(wy, cy), z), Rat(cv.height, 2)) >>

ToWorld(cx, cy, z, cv, sx, sy) ==
    << RAdd(RDiv(RSub(sx, Rat(cv.width, 2)), z), cx),
       RAdd(RDiv(RSub(sy, Rat(cv.height, 2)), z), cy) >>

worldToScreen(wx, wy) == ToScreen(camX, camY, zoom, canvas, wx, wy)

screenToWorld(sx, sy) == ToWorld(camX, camY, zoom, canvas, sx, sy)

MinRadius == 4

nodeRadius(n) ==
    LET m == IF n.w < n.h THEN n.w ELSE n.h
        r == m * 2 + 3
    IN  IF r < MinRadius THEN MinRadius ELSE r

\* areaVisible[a] as a condition: undefined (no such key) is falsy
Visible(av, a) == a \in DOMAIN av /\ av[a]

AreaVis(a) == Visible(areaVisible, a)

\* nodeById[id]: the index in NODES of the last node with that id, 0 for undefined
nodeById(nodes, id) ==
    LET hits == {i \in 1..Len(nodes) : nodes[i].id = id}
    IN  IF hits = {} THEN 0
        ELSE CHOOSE i \in hits : \A j \in hits : j <= i

----------------------------------------------------------------------------
(* The script: draw() *)

\* the state draw() reads
View ==
    [NODES |-> NODES, EDGES |-> EDGES, canvas |-> canvas, areaVisible |-> areaVisible,
     camX |-> camX, camY |-> camY, zoom |-> zoom, hoveredNode |-> hoveredNode,
     highlightedNodes |-> highlightedNodes]

Margin == 50

\* an edge stroked at full opacity, at half when the search passes it by
EdgeAlphaFull(hl, dimmed, highlighted, isHoverEdge, cap) ==
    LET base == IF dimmed THEN <<3, 20>>
                ELSE IF highlighted \/ hl = {} THEN <<1, 1>>
                ELSE <<1, 2>>
    IN  IF cap = None /\ ~isHoverEdge THEN RMul(base, <<1, 2>>) ELSE base

\* the globalAlpha an edge is stroked with; hl is highlightedNodes
EdgeAlpha(hl, dimmed, highlighted, isHoverEdge, cap) ==
    LET base == IF dimmed THEN <<3, 20>>
                ELSE IF highlighted \/ hl = {} THEN <<1, 2>>
                ELSE <<2, 25>>
    IN  IF cap = None /\ ~isHoverEdge THEN RMul(base, <<1, 2>>) ELSE base

DrawEdge(v, e) ==
    LET fromN == nodeById(v.NODES, e.from)
        toN   == nodeById(v.NODES, e.to)
    IN  IF fromN = 0 \/ toN = 0 THEN [drawn |-> FALSE]
        ELSE IF /\ ~Visible(v.areaVisible, v.NODES[fromN].area)
                /\ ~Visible(v.areaVisible, v.NODES[toN].area)
        THEN [drawn |-> FALSE]
        ELSE
        LET p1 == ToScreen(v.camX, v.camY, v.zoom, v.canvas,
                           I(v.NODES[fromN].x), I(v.NODES[fromN].y))
            p2 == ToScreen(v.camX, v.camY, v.zoom, v.canvas,
                           I(v.NODES[toN].x), I(v.NODES[toN].y))
            offX == \/ RLt(RMax(p1[1], p2[1]), I(-Margin))
                    \/ RLt(I(v.canvas.width + Margin), RMin(p1[1], p2[1]))
            offY == \/ RLt(RMax(p1[2], p2[2]), I(-Margin))
                    \/ RLt(I(v.canvas.height + Margin), RMin(p1[2], p2[2]))
            dimmed == \/ ~Visible(v.areaVisible, v.NODES[fromN].area)
                      \/ ~Visible(v.areaVisible, v.NODES[toN].area)
            highlighted == /\ v.highlightedNodes # {}
                           /\ (e.from \in v.highlightedNodes \/ e.to \in v.highlightedNodes)
            isHoverEdge == /\ v.hoveredNode # 0
                           /\ \/ e.from = v.NODES[v.hoveredNode].id
                              \/ e.to = v.NODES[v.hoveredNode].id
        IN  IF offX \/ offY THEN [drawn |-> FALSE]
            ELSE [drawn       |-> TRUE,
                  from        |-> p1,
                  to          |-> p2,
                  strokeStyle |-> IF isHoverEdge THEN "#ffffff"
                                  ELSE IF dimmed THEN "#222" ELSE e.color,
                  lineWidth   |-> IF isHoverEdge THEN e.width + 1 ELSE e.width,
                  globalAlpha |-> EdgeAlpha(v.highlightedNodes, dimmed, highlighted,
                                            isHoverEdge, e.cap)]

DrawNode(v, n) ==
    IF ~Visible(v.areaVisible, n.area) THEN [drawn |-> FALSE]
    ELSE
    LET s == ToScreen(v.camX, v.camY, v.zoom, v.canvas, I(n.x), I(n.y))
        off == \/ RLt(s[1], I(-Margin)) \/ RLt(I(v.canvas.width + Margin), s[1])
               \/ RLt(s[2], I(-Margin)) \/ RLt(I(v.canvas.height + Margin), s[2])
        r == RMul(I(nodeRadius(n)), v.zoom)
        isHovered == v.hoveredNode # 0 /\ v.NODES[v.hoveredNode].id = n.id
        isHighlighted == n.id \in v.highlightedNodes
        dimmed == v.highlightedNodes # {} /\ ~isHighlighted /\ ~isHovered
    IN  IF off THEN [drawn |-> FALSE]
        ELSE [drawn       |-> TRUE,
              at          |-> s,
              radius      |-> RMax(r, I(2)),
              fillStyle   |-> n.color,
              globalAlpha |-> IF dimmed THEN <<3, 20>>
                              ELSE IF isHovered THEN <<1, 1>> ELSE <<17, 20>>,
              outlined    |-> isHovered,
              label       |-> RLt(<<3, 2>>, v.zoom) \/ isHovered \/ isHighlighted]

\* draw() in the state v
draw(v) ==
    [edges |-> [k \in 1..Len(v.EDGES) |-> DrawEdge(v, v.EDGES[k])],
     nodes |-> [i \in 1..Len(v.NODES) |-> DrawNode(v, v.NODES[i])]]

----------------------------------------------------------------------------
(* The script: hit-testing of the mousemove handler *)

HitMargin == 8

hitRadius(n) == RAdd(I(nodeRadius(n)), RDiv(I(HitMargin), zoom))

\* dist * dist, for a node within its hit radius on both axes
Dist2(n, wx, wy) ==
    LET dx == RSub(I(n.x), wx)
        dy == RSub(I(n.y), wy)
    IN  RAdd(RMul(dx, dx), RMul(dy, dy))

\* dist < hitRadius, decided on the squares; a node farther than the radius
\* on one axis is out before anything is squared
WithinHit(n, wx, wy) ==
    LET h == hitRadius(n)
    IN  /\ RLt(RAbs(RSub(I(n.x), wx)), h)
        /\ RLt(RAbs(RSub(I(n.y), wy)), h)
        /\ RLt(Dist2(n, wx, wy), RMul(h, h))

\* dist <= closestDist: a later node at the same distance replaces the earlier
CloserOrEqual(n, wx, wy, closest) ==
    closest = 0 \/ RLe(Dist2(n, wx, wy), Dist2(NODES[closest], wx, wy))

\* dist < closestDist, closestDist being Infinity while closest is null
Closer(n, wx, wy, closest) ==
    closest = 0 \/ RLt(Dist2(n, wx, wy), Dist2(NODES[closest], wx, wy))

\* the loop over NODES from index i on; closest is 0 for null
RECURSIVE HitScan(_, _, _, _)
HitScan(i, wx, wy, closest) ==
    IF i > Len(NODES) THEN closest
    ELSE IF /\ AreaVis(NODES[i].area)
            /\ WithinHit(NODES[i], wx, wy)
            /\ Closer(NODES[i], wx, wy, closest)
         THEN HitScan(i + 1, wx, wy, i)
         ELSE HitScan(i + 1, wx, wy, closest)

HitTest(px, py) ==
    LET w == screenToWorld(I(px), I(py))
    IN  HitScan(1, w[1], w[2], 0)

----------------------------------------------------------------------------
(* The script: start-up *)

RECURSIVE MinOf(_)
MinOf(q) == IF Len(q) = 1 THEN q[1]
            ELSE LET m == MinOf(Tail(q)) IN IF q[1] < m THEN q[1] ELSE m

RECURSIVE MaxOf(_)
MaxOf(q) == IF Len(q) = 1 THEN q[1]
            ELSE LET m == MaxOf(Tail(q)) IN IF q[1] > m THEN q[1] ELSE m

\* centerView(), from the camera and zoom the script starts with
centerView(nodes, cv) ==
    IF Len(nodes) = 0 THEN [camX |-> I(0), camY |-> I(0), zoom |-> I(1)]
    ELSE
    LET xs == [i \in 1..Len(nodes) |-> nodes[i].x]
        ys == [i \in 1..Len(nodes) |-> nodes[i].y]
        spanX == MaxOf(xs) - MinOf(xs) + 100
        spanY == MaxOf(ys) - MinOf(ys) + 100
        z == RMul(RMin(Rat(cv.width, spanX), Rat(cv.height, spanY)), <<17, 20>>)
    IN  [camX |-> Rat(MinOf(xs) + MaxOf(xs), 2),
         camY |-> Rat(MinOf(ys) + MaxOf(ys), 2),
         zoom |-> RMax(<<3, 10>>, RMin(z, I(5)))]

\* window.innerWidth x window.innerHeight
WindowSizes == { [width |-> 400, height |-> 400] }

\* the script, run to its end by the browser that opens the written document
\* once main has returned
Load(size) ==
    /\ ~loaded
    /\ pc = "done"
    /\ outFile[1] = "doc"
    /\ loaded' = TRUE
    /\ NODES' = outFile[2].nodes
    /\ EDGES' = outFile[2].edges
    /\ areaVisible' = [a \in DOMAIN AREA_COLORS |-> TRUE]
    /\ canvas' = size
    /\ LET v == centerView(outFile[2].nodes, size)
       IN  camX' = v.camX /\ camY' = v.camY /\ zoom' = v.zoom
    /\ UNCHANGED <<genVars, dragVars, histVars, hoveredNode, searchValue, searchTerm,
                   highlightedNodes, tooltipShown, button, nWheel, nEvents>>
    /\ frame' = draw(View')

----------------------------------------------------------------------------
(* The script: event handlers *)

\* one more event of the page is handled, to completion
Tick ==
    /\ nEvents < MaxEvents
    /\ nEvents' = nEvents + 1

\* the change handler of an area's checkbox
AreaToggle(a) ==
    /\ loaded
    /\ Tick
    /\ areaVisible' = [areaVisible EXCEPT ![a] = ~@]
    /\ UNCHANGED <<genVars, dataVars, camVars, dragVars, histVars, hoveredNode,
                   searchValue, searchTerm, highlightedNodes, tooltipShown, button,
                   nWheel>>
    /\ frame' = draw(View')

\* mousedown on the canvas
MouseDown(px, py) ==
    /\ loaded
    /\ Tick
    /\ ~button
    /\ button' = TRUE
    /\ dragging' = TRUE
    /\ dragStartX' = px
    /\ dragStartY' = py
    /\ dragCamX' = camX
    /\ dragCamY' = camY
    /\ LET w == screenToWorld(I(px), I(py))
       IN  downWX' = w[1] /\ downWY' = w[2]
    /\ UNCHANGED <<genVars, dataVars, areaVisible, camVars, hoveredNode, searchValue,
                   searchTerm, highlightedNodes, frame, tooltipShown, nWheel>>

\* mousemove on the canvas while dragging
MouseMoveDrag(px, py) ==
    /\ loaded
    /\ Tick
    /\ dragging
    /\ camX' = RSub(dragCamX, RDiv(I(px - dragStartX), zoom))
    /\ camY' = RSub(dragCamY, RDiv(I(py - dragStartY), zoom))
    /\ UNCHANGED <<genVars, dataVars, areaVisible, zoom, dragVars, histVars, hoveredNode,
                   searchValue, searchTerm, highlightedNodes, tooltipShown, button,
                   nWheel>>
    /\ frame' = draw(View')

\* mousemove on the canvas while not dragging
MouseMoveIdle(px, py) ==
    /\ loaded
    /\ Tick
    /\ ~dragging
    /\ LET closest == HitTest(px, py)
       IN  /\ hoveredNode' = closest
           /\ tooltipShown' = (closest # 0)
    /\ UNCHANGED <<genVars, dataVars, areaVisible, camVars, dragVars, histVars,
                   searchValue, searchTerm, highlightedNodes, button, nWheel>>
    /\ frame' = IF hoveredNode' # hoveredNode THEN draw(View') ELSE frame

\* mouseup on the canvas
MouseUp ==
    /\ loaded
    /\ Tick
    /\ button
    /\ button' = FALSE
    /\ dragging' = FALSE
    /\ UNCHANGED <<genVars, dataVars, areaVisible, camVars, dragStartX, dragStartY,
                   dragCamX, dragCamY, histVars, hoveredNode, searchValue, searchTerm,
                   highlightedNodes, frame, tooltipShown, nWheel>>

\* the button is released over the controls, the legend, the stats or outside
\* the window: the event is not dispatched to the canvas, no handler runs
MouseUpElsewhere ==
    /\ loaded
    /\ Tick
    /\ button
    /\ button' = FALSE
    /\ UNCHANGED <<genVars, dataVars, areaVisible, camVars, dragVars, histVars,
                   hoveredNode, searchValue, searchTerm, highlightedNodes, frame,
                   tooltipShown, nWheel>>

ZoomClamp(z) == RMax(<<1, 10>>, RMin(z, I(20)))

WheelFactor(deltaY) == IF deltaY > 0 THEN <<9, 10>> ELSE <<11, 10>>

\* wheel on the canvas, the camera recomputed with the zoom of before the event
WheelStaleZoom(px, py, deltaY) ==
    /\ loaded
    /\ Tick
    /\ nWheel < MaxWheel
    /\ nWheel' = nWheel + 1
    /\ LET w == screenToWorld(I(px), I(py))
       IN  /\ zoom' = ZoomClamp(RMul(zoom, WheelFactor(deltaY)))
           /\ camX' = RSub(w[1], RDiv(RSub(I(px), Rat(canvas.width, 2)), zoom))
           /\ camY' = RSub(w[2], RDiv(RSub(I(py), Rat(canvas.height, 2)), zoom))
    /\ UNCHANGED <<genVars, dataVars, areaVisible, dragVars, histVars, hoveredNode,
                   searchValue, searchTerm, highlightedNodes, tooltipShown, button>>
    /\ frame' = draw(View')

\* wheel on the canvas
Wheel(px, py, deltaY) ==
    /\ loaded
    /\ Tick
    /\ nWheel < MaxWheel
    /\ nWheel' = nWheel + 1
    /\ LET w == screenToWorld(I(px), I(py))
       IN  /\ zoom' = ZoomClamp(RMul(zoom, WheelFactor(deltaY)))
           /\ camX' = RSub(w[1], RDiv(RSub(I(px), Rat(canvas.width, 2)), zoom'))
           /\ camY' = RSub(w[2], RDiv(RSub(I(py), Rat(canvas.height, 2)), zoom'))
    /\ UNCHANGED <<genVars, dataVars, areaVisible, dragVars, histVars, hoveredNode,
                   searchValue, searchTerm, highlightedNodes, tooltipShown, button>>
    /\ frame' = draw(View')

\* whether a node matches the search term
Matches(n, term) ==
    \/ includes(toLowerCase(n.label), term)
    \/ includes(toLowerCase(n.hex), term)
    \/ includes(toLowerCase(n.area), term)

\* the input handler of the search box without highlightedNodes.clear()
SearchInputNoClear(v) ==
    /\ loaded
    /\ Tick
    /\ v # searchValue
    /\ searchValue' = v
    /\ searchTerm' = trim(toLowerCase(v))
    /\ highlightedNodes' = highlightedNodes \cup
           (IF Len(searchTerm') > 0
            THEN {NODES[i].id : i \in {j \in 1..Len(NODES) : Matches(NODES[j], searchTerm')}}
            ELSE {})
    /\ UNCHANGED <<genVars, dataVars, areaVisible, camVars, dragVars, histVars,
                   hoveredNode, tooltipShown, button, nWheel>>
    /\ frame' = draw(View')

\* the input handler of the search box, the box holding v
SearchInput(v) ==
    /\ loaded
    /\ Tick
    /\ v # searchValue
    /\ searchValue' = v
    /\ searchTerm' = trim(toLowerCase(v))
    /\ highlightedNodes' =
           IF Len(searchTerm') > 0
           THEN {NODES[i].id : i \in {j \in 1..Len(NODES) : Matches(NODES[j], searchTerm')}}
           ELSE {}
    /\ UNCHANGED <<genVars, dataVars, areaVisible, camVars, dragVars, histVars,
                   hoveredNode, tooltipShown, button, nWheel>>
    /\ frame' = draw(View')

----------------------------------------------------------------------------
(* Inputs of the events *)

\* pointer positions (clientX, clientY): the centres of the rooms on a
\* 400 x 400 canvas as centerView leaves it, and the canvas centre
Pointer == { <<80, 180>>, <<320, 180>>, <<320, 220>>, <<200, 200>> }

DeltaYs == {-100, 100}

\* the areas whose checkbox the user toggles
ToggledAreas == {Crateria, Brinstar}

\* contents of the search box
SearchInputs == { <<>>, <<" ">>, <<"b", " ">>, <<"T", "o">> }

----------------------------------------------------------------------------
(* Specification *)

Init ==
    /\ pc = "open_input"
    /\ inFile \in InputFiles
    /\ outFile \in OutputFiles
    /\ data = <<>>
    /\ html_content = [built |-> FALSE]
    /\ loaded = FALSE
    /\ NODES = <<>>
    /\ EDGES = <<>>
    /\ canvas = [width |-> 0, height |-> 0]
    /\ areaVisible = <<>>
    /\ camX = I(0) /\ camY = I(0) /\ zoom = I(1)
    /\ dragging = FALSE
    /\ dragStartX = 0 /\ dragStartY = 0
    /\ dragCamX = I(0) /\ dragCamY = I(0)
    /\ hoveredNode = 0
    /\ searchValue = <<>>
    /\ searchTerm = <<>>
    /\ highlightedNodes = {}
    /\ frame = [edges |-> <<>>, nodes |-> <<>>]
    /\ tooltipShown = FALSE
    /\ button = FALSE
    /\ downWX = I(0) /\ downWY = I(0)
    /\ nWheel = 0
    /\ nEvents = 0

NextGen ==
    \/ OpenInput
    \/ JsonLoad
    \/ GetNodes
    \/ GetEdges
    \/ Build
    \/ OpenOutput
    \/ OpenOutputError
    \/ WriteOutput
    \/ WriteOutputError
    \/ PrintDone

NextView ==
    \/ \E a \in ToggledAreas : AreaToggle(a)
    \/ \E p \in Pointer : MouseDown(p[1], p[2])
    \/ \E p \in Pointer : MouseMoveDrag(p[1], p[2])
    \/ \E p \in Pointer : MouseMoveIdle(p[1], p[2])
    \/ MouseUp
    \/ MouseUpElsewhere
    \/ \E p \in Pointer, deltaY \in DeltaYs : Wheel(p[1], p[2], deltaY)
    \/ \E v \in SearchInputs : SearchInput(v)

Next ==
    \/ NextGen
    \/ \E size \in WindowSizes : Load(size)
    \/ NextView

Spec == Init /\ [][Next]_vars

----------------------------------------------------------------------------
(* The renderer from the zoom levels a run of wheel events at the canvas    *)
(* centre leaves it at: such an event multiplies zoom and keeps the camera, *)
(* so the camera is still centerView's and zoom is 1 scaled by the factors, *)
(* 20 or 1/10 once the clamp has acted.                                     *)

ZoomLevels == { I(1), I(20), <<1, 10>> }

InitZoom ==
    LET doc  == BuildDoc(GraphNodes, GraphEdges)
        size == [width |-> 400, height |-> 400]
        v    == centerView(doc.nodes, size)
    IN  /\ pc = "done"
        /\ inFile = [exists |-> TRUE, valid |-> TRUE,
                     value |-> [nodes |-> GraphNodes, edges |-> GraphEdges]]
        /\ outFile = <<"doc", doc>>
        /\ data = [nodes |-> GraphNodes, edges |-> GraphEdges]
        /\ html_content = doc
        /\ loaded = TRUE
        /\ NODES = doc.nodes
        /\ EDGES = doc.edges
        /\ canvas = size
        /\ areaVisible = [a \in DOMAIN AREA_COLORS |-> TRUE]
        /\ camX = v.camX /\ camY = v.camY
        /\ zoom \in ZoomLevels
        /\ dragging = FALSE
        /\ dragStartX = 0 /\ dragStartY = 0
        /\ dragCamX = I(0) /\ dragCamY = I(0)
        /\ hoveredNode = 0
        /\ searchValue = <<>>
        /\ searchTerm = <<>>
        /\ highlightedNodes = {}
        /\ frame = draw([NODES |-> doc.nodes, EDGES |-> doc.edges, canvas |-> size,
                         areaVisible |-> [a \in DOMAIN AREA_COLORS |-> TRUE],
                         camX |-> v.camX, camY |-> v.camY, zoom |-> zoom,
                         hoveredNode |-> 0, highlightedNodes |-> {}])
        /\ tooltipShown = FALSE
        /\ button = FALSE
        /\ downWX = I(0) /\ downWY = I(0)
        /\ nWheel = 0
            /\ nEvents = 0

SpecZoom == InitZoom /\ [][NextView]_vars

----------------------------------------------------------------------------
(* Properties *)

IsPrefix(a, b) == Len(a) <= Len(b) /\ SubSeq(b, 1, Len(a)) = a

Outgoing(nodes, edges, n) == {k \in 1..Len(edges) : edges[k].fromRoomId = n.roomId}

\* C1: every room's tooltip starts with the header (escaped name, area, hex
\* id, map coordinates, footprint, separator), followed by the connection
\* lines, or by "No doors" when the room has no outgoing connection.
C1_TooltipHasHeader ==
    html_content.built =>
        \A i \in 1..Len(data.nodes) :
            LET n == data.nodes[i]
                t == html_content.nodes[i].tooltip
            IN  /\ IsPrefix(TooltipHead(n), t)
                /\ Outgoing(data.nodes, data.edges, n) = {}
                       => t = TooltipHead(n) \o <<"No doors">>
                /\ Outgoing(data.nodes, data.edges, n) # {}
                       => Len(t) > Len(TooltipHead(n)) /\ t[Len(t)] # "No doors"

AllAreasShown == \A a \in DOMAIN areaVisible : areaVisible[a]

InViewport(n) ==
    LET s == worldToScreen(I(n.x), I(n.y))
    IN  /\ RLe(I(0), s[1]) /\ RLe(s[1], I(canvas.width))
        /\ RLe(I(0), s[2]) /\ RLe(s[2], I(canvas.height))

\* the pointer position p maps exactly to the world-space centre of NODES[i]
AtCentre(p, i) ==
    screenToWorld(I(p[1]), I(p[2])) = <<I(NODES[i].x), I(NODES[i].y)>>

\* C2: a room of an unknown area gets the fallback colour and, while no area
\* is hidden, is drawn when inside the viewport and is a hover candidate of
\* the idle hit-test.
C2_UnknownAreaRendered ==
    loaded =>
        \A i \in 1..Len(NODES) :
            NODES[i].area \notin DOMAIN AREA_COLORS =>
                /\ NODES[i].color = "#888"
                /\ AllAreasShown =>
                       /\ InViewport(NODES[i]) => frame.nodes[i].drawn
                       /\ \A p \in Pointer : AtCentre(p, i) => HitTest(p[1], p[2]) # 0

\* some room of a visible area is strictly closer to the pointer at p than NODES[i];
\* read only where the pointer maps to a room centre
StrictlyCloser(p, i) ==
    LET w == screenToWorld(I(p[1]), I(p[2]))
    IN  \E j \in 1..Len(NODES) :
            /\ j # i
            /\ AreaVis(NODES[j].area)
            /\ RLt(Dist2(NODES[j], w[1], w[2]), Dist2(NODES[i], w[1], w[2]))

\* the case of the hit-testing claim: the idle move at p, p at the centre of
\* the visible room NODES[i], no visible room strictly closer
CentreCase(p, i) ==
    /\ MouseMoveIdle(p[1], p[2])
    /\ AreaVis(NODES[i].area)
    /\ AtCentre(p, i)
    /\ ~StrictlyCloser(p, i)

\* C3 as stated: after an idle pointer-move at the centre of a visible room
\* R, the hovered room is R unless a visible room is strictly closer, also
\* when two visible rooms share a position.
C3_CentreIsHovered ==
    [][\A p \in Pointer : \A i \in 1..Len(NODES) :
           CentreCase(p, i) => hoveredNode' = i]_vars

\* the first room of NODES in a visible area at the position of NODES[i]
FirstVisibleAt(i) ==
    LET same == {j \in 1..Len(NODES) : /\ AreaVis(NODES[j].area)
                                       /\ NODES[j].x = NODES[i].x
                                       /\ NODES[j].y = NODES[i].y}
    IN  CHOOSE j \in same : \A k \in same : j <= k

\* C3 as amended: after an idle pointer-move at the centre of a visible room
\* R, with no visible room strictly closer, the hovered room is the first
\* room of the list, in a visible area, at R's position: R itself unless an
\* earlier visible room shares its position.
C3_FirstAtCentreIsHovered ==
    [][\A p \in Pointer : \A i \in 1..Len(NODES) :
           CentreCase(p, i) => hoveredNode' = FirstVisibleAt(i)]_vars

\* a room is hovered while a later room of a visible area shares its position
C3_Witness ==
    /\ loaded
    /\ hoveredNode # 0
    /\ \E j \in 1..Len(NODES) :
           /\ j > hoveredNode
           /\ AreaVis(NODES[j].area)
           /\ NODES[j].x = NODES[hoveredNode].x
           /\ NODES[j].y = NODES[hoveredNode].y

\* C4: a pointer-up, wherever the button is released, ends the drag.
C4_PointerUpEndsDrag ==
    [][(button /\ ~button') => ~dragging']_vars

\* C5: a wheel event at p keeps the world point under p at p, sets zoom to
\* the old zoom times 1.1 or 0.9 clamped to [0.1, 20], and leaves zoom
\* within [0.1, 20], the clamp acting or not.
C5_ZoomToCursor ==
    [][\A p \in Pointer : \A deltaY \in DeltaYs :
           Wheel(p[1], p[2], deltaY) =>
               LET w == screenToWorld(I(p[1]), I(p[2]))
                   f == IF deltaY > 0 THEN <<9, 10>> ELSE <<11, 10>>
                   z == RMul(zoom, f)
                   clamped == IF RLt(z, <<1, 10>>) THEN <<1, 10>>
                              ELSE IF RLt(I(20), z) THEN I(20) ELSE z
               IN  /\ ToScreen(camX', camY', zoom', canvas', w[1], w[2])
                          = <<I(p[1]), I(p[2])>>
                   /\ zoom' = clamped
                   /\ RLe(<<1, 10>>, zoom') /\ RLe(zoom', I(20))]_vars

\* a wheel event has been handled with the upper clamp acting
C5_Witness == nWheel > 0 /\ zoom = I(20)

\* C6: when reading, parsing or a top-level key fails, the output file is as
\* it was; the output is opened only after build_html has returned.
C6_NoPartialOutput ==
    /\ pc \in {"failed_read", "failed_json", "failed_key"} => outFile \in OutputFiles
    /\ outFile \notin OutputFiles =>
           /\ html_content.built
           /\ pc \in {"write", "print", "done", "failed_write"}

\* a required key was missing and an existing output file is untouched
C6_Witness == pc = "failed_key" /\ outFile = <<"old">>

\* s contains t, case-insensitively
ContainsCI(s, t) ==
    \E i \in 1..(Len(s) - Len(t) + 1) :
        \A k \in 1..Len(t) : LowerChar(s[i + k - 1]) = LowerChar(t[k])

MatchingIds(t) ==
    {NODES[i].id : i \in {j \in 1..Len(NODES) :
        \/ ContainsCI(NODES[j].label, t)
        \/ ContainsCI(NODES[j].hex, t)
        \/ ContainsCI(NODES[j].area, t)}}

\* C7 as stated: the highlight set is the set of rooms whose name, hex id or
\* area contains the content of the search box, case-insensitively, and is
\* empty when the box is empty.
C7_HighlightIsSubstringMatch ==
    loaded =>
        highlightedNodes = IF searchValue = <<>> THEN {} ELSE MatchingIds(searchValue)

\* C7 as amended: the highlight set is the set of rooms whose name, hex id or
\* area contains the content of the search box stripped of leading and
\* trailing whitespace, case-insensitively, and is empty when the stripped
\* content is empty.
C7_HighlightIsTrimmedMatch ==
    loaded =>
        highlightedNodes = IF trim(searchValue) = <<>> THEN {}
                           ELSE MatchingIds(trim(searchValue))

\* the box holds "b " and rooms are highlighted
C7_Witness == loaded /\ searchValue = <<"b", " ">> /\ highlightedNodes # {}

\* the facts of a drawn edge the opacity rules speak of
EdgeFacts(k) ==
    LET e == EDGES[k]
        fromN == NODES[nodeById(NODES, e.from)]
        toN == NODES[nodeById(NODES, e.to)]
    IN  [hidden   |-> ~AreaVis(fromN.area) \/ ~AreaVis(toN.area),
         passedBy |-> /\ highlightedNodes # {}
                      /\ e.from \notin highlightedNodes
                      /\ e.to \notin highlightedNodes,
         hoverAdj |-> /\ hoveredNode # 0
                      /\ (e.from = NODES[hoveredNode].id \/ e.to = NODES[hoveredNode].id),
         capless  |-> e.cap = None]

CapFactor(f) == IF f.capless /\ ~f.hoverAdj THEN <<1, 2>> ELSE <<1, 1>>

\* C8 as stated: a drawn door is stroked at 0.15 when an endpoint's area is
\* hidden, else at 0.5 when a highlight set is active and holds neither
\* endpoint, else at 1.0 when no highlight set is active and the door is not
\* hover-adjacent; a cap-less door not touching the hovered room at half that.
C8_DoorOpacity ==
    loaded =>
        \A k \in 1..Len(EDGES) :
            frame.edges[k].drawn =>
                LET f == EdgeFacts(k)
                    a == frame.edges[k].globalAlpha
                IN  /\ f.hidden => a = RMul(<<3, 20>>, CapFactor(f))
                    /\ (~f.hidden /\ f.passedBy) => a = RMul(<<1, 2>>, CapFactor(f))
                    /\ (~f.hidden /\ highlightedNodes = {} /\ ~f.hoverAdj)
                           => a = RMul(<<1, 1>>, CapFactor(f))

\* C8 as amended: a drawn door is stroked at 0.15 when an endpoint's area is
\* hidden, else at 0.08 when a highlight set is active and holds neither
\* endpoint, else at 0.5; a cap-less door not touching the hovered room at
\* half that.
C8_DoorOpacityAsDrawn ==
    loaded =>
        \A k \in 1..Len(EDGES) :
            frame.edges[k].drawn =>
                LET f == EdgeFacts(k)
                    a == frame.edges[k].globalAlpha
                IN  /\ f.hidden => a = RMul(<<3, 20>>, CapFactor(f))
                    /\ (~f.hidden /\ f.passedBy) => a = RMul(<<2, 25>>, CapFactor(f))
                    /\ (~f.hidden /\ ~f.passedBy) => a = RMul(<<1, 2>>, CapFactor(f))

\* a door between visible areas is drawn while the active highlight set holds
\* neither of its endpoints
C8_Witness ==
    /\ loaded
    /\ \E k \in 1..Len(EDGES) :
           /\ frame.edges[k].drawn
           /\ ~EdgeFacts(k).hidden
           /\ EdgeFacts(k).passedBy

\* C9: the hovered room is null or a room of a visible area.
C9_HoveredIsVisible ==
    loaded => (hoveredNode = 0 \/ AreaVis(NODES[hoveredNode].area))

\* C10: from pointer-down until pointer-up, after every pointer-move handled
\* while dragging, the world point under the pointer is the one that was
\* under it at pointer-down.
C10_DragAnchor ==
    [][\A p \in Pointer :
           (button /\ MouseMoveDrag(p[1], p[2])) =>
               ToWorld(camX', camY', zoom', canvas', I(p[1]), I(p[2]))
                   = <<downWX, downWY>>]_vars

====
